---- MODULE Spec2Model ----
(***************************************************************************)
(* Model of the cooking-state coordination core of the AR cooking          *)
(* assistant: the RecipeStateManager of server.py (step index, countdown, *)
(* running flag), its commands, the timer loop, and the FoodItemTracker   *)
(* of progress_tracker.py.                                                 *)
(*                                                                         *)
(* server.py takes no lock around RecipeStateManager: the timer loop is a *)
(* background task and every command is served by its own request thread, *)
(* so each read or write of an attribute of recipe_manager is one step    *)
(* of the thread that performs it and the steps of different threads      *)
(* interleave freely.                                                      *)
(***************************************************************************)
EXTENDS Integers, Sequences, FiniteSets, TLC

\* ---------------------------------------------------------------- bounds
\* iterations of the timer loop that may start while one command is in flight
MaxLag == 1

\* ------------------------------------------------------------- the recipe
recipe_steps ==
    << [description |-> "Boil water",            duration |-> 300],
       [description |-> "Add pasta and cook",    duration |-> 480],
       [description |-> "Drain pasta and serve", duration |-> 60] >>

\* len(self._recipe["steps"])
total_steps == Len(recipe_steps)

\* Python list indices are 0-based: steps[i] raises IndexError unless
\* 0 <= i < len(steps) (negative indices do not occur: the index only grows).
InRange(i) == i >= 0 /\ i < total_steps

\* self._recipe["steps"][i]["duration"]
Duration(i) == recipe_steps[i + 1].duration

\* ---------------------------------------------------------------- threads
\* the background task running timer_thread_loop
Timer == 0
\* the request threads serving the command endpoints
Workers == {1, 2}
Threads == {Timer} \cup Workers
\* the background task running video_processing_loop
Video == 3
\* whoever calls push_progress_update
Producers == Threads \cup {Video}
\* the Socket.IO clients that may connect
Subscribers == {1, 2}

NoSnap == [step |-> -1, idx |-> -1, rem |-> -1, run |-> FALSE]
NoState == [idx |-> -1, rem |-> -1, run |-> FALSE]
NoFrame == << >>
NoCycle == [outcome |-> "none", created |-> FALSE, updated |-> FALSE, events |-> << >>]
NoneEmitted == [p \in Producers |-> 0]

VARIABLES
    current_step_index,   \* recipe_manager.current_step_index
    timer_remaining,      \* recipe_manager.timer_remaining
    timer_is_running,     \* recipe_manager.timer_is_running
    pc,                   \* pc[t]: position of thread t in its code
    op,                   \* op[t]: the operation thread t is executing
    tmp,                  \* tmp[t]: value loaded by an in-place += / -=, or a duration
    snap,                 \* snap[t]: the dict get_current_status is building
    ret,                  \* ret[t]: outcome of the operation: none, true, false, raised
    pushes,               \* pushes[t]: push_progress_update calls made by the operation
    pre,                  \* history: pre[t] is the RecipeState when t's operation began
    alone,                \* history: no other thread wrote RecipeState since it began
    ticks,                \* timer iterations started while the command in flight ran
    script,               \* history: progress of the scenario of the spec's section 8
    food_trackers,        \* server.py's dict of FoodItemTracker objects, keyed by id
    thread_stop_event,    \* server.py's thread_stop_event: set or not
    video_pc,             \* position of the task running video_processing_loop
    frame,                \* video_processing_loop's frame
    tracker_id_counter,   \* video_processing_loop's tracker_id_counter
    detected_items,       \* video_processing_loop's detected_items
    cycle,                \* history: what the latest detection cycle did
    state_changes,        \* history: state-change updates pushed by the loop so far
    clients,              \* the Socket.IO clients connected now
    inbox,                \* inbox[s]: the events emitted to client s since it connected
    emitted,              \* history: emitted[p]: events of p pushed to an audience
    joined                \* history: joined[s]: emitted, as client s connected

shared == <<current_step_index, timer_remaining, timer_is_running>>
detection == <<video_pc, frame, tracker_id_counter, detected_items, cycle, state_changes>>
network == <<clients, inbox, emitted, joined>>
rest == <<thread_stop_event, detection, network>>
vars == <<current_step_index, timer_remaining, timer_is_running,
          pc, op, tmp, snap, ret, pushes, pre, alone, ticks, script, food_trackers,
          thread_stop_event, video_pc, frame, tracker_id_counter, detected_items,
          cycle, state_changes, clients, inbox, emitted, joined>>
recipe == <<current_step_index, timer_remaining, timer_is_running,
            pc, op, tmp, snap, ret, pushes, pre, alone, ticks, script>>

\* The RecipeState triple as it stands now.
State == [idx |-> current_step_index, rem |-> timer_remaining, run |-> timer_is_running]

\* RecipeStateManager.__init__, and every thread before its first operation
Init ==
    /\ current_step_index = 0
    /\ timer_remaining = Duration(0)
    /\ timer_is_running = FALSE
    /\ pc = [t \in Threads |-> "idle"]
    /\ op = [t \in Threads |-> "none"]
    /\ tmp = [t \in Threads |-> -1]
    /\ snap = [t \in Threads |-> NoSnap]
    /\ ret = [t \in Threads |-> "none"]
    /\ pushes = [t \in Threads |-> 0]
    /\ pre = [t \in Threads |-> NoState]
    /\ alone = [t \in Threads |-> TRUE]
    /\ ticks = 0
    /\ script = 0
    /\ food_trackers = << >>
    /\ thread_stop_event = FALSE
    /\ video_pc = "start"
    /\ frame = NoFrame
    /\ tracker_id_counter = 0
    /\ detected_items = << >>
    /\ cycle = NoCycle
    /\ state_changes = 0
    /\ clients = {}
    /\ inbox = [s \in Subscribers |-> {}]
    /\ emitted = NoneEmitted
    /\ joined = [s \in Subscribers |-> NoneEmitted]

\* Thread t moves to position p.
Goto(t, p) == pc' = [pc EXCEPT ![t] = p]

\* Thread t begins operation o with a read.
Begin(t, o) ==
    /\ op' = [op EXCEPT ![t] = o]
    /\ pushes' = [pushes EXCEPT ![t] = 0]
    /\ pre' = [pre EXCEPT ![t] = State]

\* What the history keeps of every thread once t has written an attribute of
\* recipe_manager: each other thread that is inside an operation has been
\* written under, and of the state it began in only the step index is kept.
\* (At "d_run" the timer loop has passed its test but read nothing yet.)
Under(t, u) == u # t /\ pc[u] \notin {"idle", "d_run"}
AloneAfter(t) == [u \in Threads |-> IF Under(t, u) THEN FALSE ELSE alone[u]]
PreAfter(t) ==
    [u \in Threads |->
        IF Under(t, u) THEN [idx |-> pre[u].idx, rem |-> -1, run |-> FALSE] ELSE pre[u]]

\* Thread t, inside an operation, writes an attribute of recipe_manager.
Wrote(t) ==
    /\ alone' = AloneAfter(t)
    /\ pre' = PreAfter(t)

\* Thread t begins operation o with a write.
BeginWrite(t, o) ==
    /\ op' = [op EXCEPT ![t] = o]
    /\ pushes' = [pushes EXCEPT ![t] = 0]
    /\ alone' = AloneAfter(t)
    /\ pre' = [PreAfter(t) EXCEPT ![t] = State]

\* tmp[t] is not read again before it is next assigned.
Dead(t) == tmp' = [tmp EXCEPT ![t] = -1]

\* No thread is inside an operation.
Quiescent == \A t \in Threads : pc[t] \in {"idle", "d_run", "sleep"}

\* ---------------------------------------------------- scenario bookkeeping
\* The scenario: resume(), then tick() five times, then advanceStep(), each
\* begun after the one before it has completed. script = k says the first k
\* operations of the scenario are the operations begun so far; -1, that the
\* run has left the scenario. Re-sending the snapshot does not leave it.
ScenarioTicks == 5

ScriptAfterCommand(c) ==
    IF c = "repeat_step" THEN script
    ELSE IF Quiescent /\ script = 0 /\ c = "resume_timer" THEN 1
    ELSE IF Quiescent /\ script = ScenarioTicks + 1 /\ c = "next_step"
         THEN ScenarioTicks + 2
    ELSE -1

ScriptAfterTick ==
    IF Quiescent /\ script >= 1 /\ script <= ScenarioTicks THEN script + 1 ELSE -1

\* ------------------------------------------------- get_current_status
\* line 26: current_step = self._recipe["steps"][self.current_step_index]
StatusStep(t) ==
    /\ pc[t] = "s_step"
    /\ IF InRange(current_step_index)
         THEN /\ snap' = [snap EXCEPT ![t].step = current_step_index]
              /\ Goto(t, "s_idx")
              /\ ret' = ret
         ELSE \* IndexError: a request thread answers 500, the timer task dies
              /\ snap' = snap
              /\ Goto(t, IF t = Timer THEN "crashed" ELSE "ret")
              /\ ret' = [ret EXCEPT ![t] = "raised"]
    /\ UNCHANGED <<shared, op, tmp, pushes, pre, alone, ticks, script, food_trackers, rest>>

\* line 30: "current_step_index": self.current_step_index
StatusIndex(t) ==
    /\ pc[t] = "s_idx"
    /\ snap' = [snap EXCEPT ![t].idx = current_step_index]
    /\ Goto(t, "s_rem")
    /\ UNCHANGED <<shared, op, tmp, ret, pushes, pre, alone, ticks, script, food_trackers, rest>>

\* line 32: "timer_remaining": self.timer_remaining
StatusRemaining(t) ==
    /\ pc[t] = "s_rem"
    /\ snap' = [snap EXCEPT ![t].rem = timer_remaining]
    /\ Goto(t, "s_run")
    /\ UNCHANGED <<shared, op, tmp, ret, pushes, pre, alone, ticks, script, food_trackers, rest>>

\* line 33: "timer_is_running": self.timer_is_running
StatusRunning(t) ==
    /\ pc[t] = "s_run"
    /\ snap' = [snap EXCEPT ![t].run = timer_is_running]
    /\ Goto(t, "push")
    /\ UNCHANGED <<shared, op, tmp, ret, pushes, pre, alone, ticks, script, food_trackers, rest>>

get_current_status(t) ==
    StatusStep(t) \/ StatusIndex(t) \/ StatusRemaining(t) \/ StatusRunning(t)

\* ------------------------------------------------ push_progress_update
\* events pushed to an audience that the history numbers, for each producer
MaxEvents == 2

\* The history gives the events a producer pushes while clients are connected
\* the serial numbers 1, 2, ...; an event is known by its producer and number.
Event(p, k) == [by |-> p, n |-> k]

CanEmit(p) == clients = {} \/ emitted[p] < MaxEvents

\* the clients an emit with broadcast=True goes to
Audience == clients

\* line 124: socketio.emit('progress_update', progress_data, broadcast=True)
Broadcast(p) ==
    /\ CanEmit(p)
    /\ IF clients = {}
         THEN UNCHANGED <<inbox, emitted>>
         ELSE /\ emitted' = [emitted EXCEPT ![p] = @ + 1]
              /\ inbox' = [s \in Subscribers |->
                              IF s \in Audience
                                THEN inbox[s] \cup {Event(p, emitted[p] + 1)}
                                ELSE inbox[s]]
    /\ UNCHANGED <<clients, joined>>

\* push_progress_update called with the dict get_current_status just built;
\* the operation that called it then ends (next_step with True). The payload
\* stays in snap[t] until the thread leaves the operation.
push_progress_update(t) ==
    /\ pc[t] = "push"
    /\ Broadcast(t)
    /\ pushes' = [pushes EXCEPT ![t] = @ + 1]
    /\ ret' = [ret EXCEPT ![t] = "true"]
    /\ Goto(t, IF t = Timer THEN "sleep" ELSE "ret")
    /\ UNCHANGED <<shared, op, tmp, snap, pre, alone, ticks, script, food_trackers,
                   thread_stop_event, detection>>

\* ------------------------------------------------------------ next_step
\* line 50: self.current_step_index < len(self._recipe["steps"]) - 1
NotOnFinalStepOffByOne == current_step_index <= total_steps - 1
NotOnFinalStep == current_step_index < total_steps - 1

\* line 50: if self.current_step_index < len(self._recipe["steps"]) - 1:
\* (the request thread enters next_step; on the final step it returns False)
NextStepCheck(w) ==
    /\ pc[w] = "idle"
    /\ Begin(w, "next_step")
    /\ script' = ScriptAfterCommand("next_step")
    /\ IF NotOnFinalStep
         THEN Goto(w, "n_load") /\ ret' = ret
         ELSE Goto(w, "ret") /\ ret' = [ret EXCEPT ![w] = "false"]
    /\ UNCHANGED <<shared, tmp, snap, alone, ticks, food_trackers, rest>>

\* line 51: self.current_step_index += 1   (load)
NextStepLoad(w) ==
    /\ pc[w] = "n_load"
    /\ tmp' = [tmp EXCEPT ![w] = current_step_index]
    /\ Goto(w, "n_store")
    /\ UNCHANGED <<shared, op, snap, ret, pushes, pre, alone, ticks, script, food_trackers, rest>>

\* line 51: self.current_step_index += 1   (store)
NextStepStore(w) ==
    /\ pc[w] = "n_store"
    /\ current_step_index' = tmp[w] + 1
    /\ Wrote(w)
    /\ Dead(w)
    /\ Goto(w, "n_new")
    /\ UNCHANGED <<timer_remaining, timer_is_running, op, snap, ret, pushes,
                   ticks, script, food_trackers, rest>>

\* line 52: new_step = self._recipe["steps"][self.current_step_index]
NextStepNew(w) ==
    /\ pc[w] = "n_new"
    /\ IF InRange(current_step_index)
         THEN /\ tmp' = [tmp EXCEPT ![w] = Duration(current_step_index)]
              /\ Goto(w, "n_rem")
              /\ ret' = ret
         ELSE /\ tmp' = tmp
              /\ Goto(w, "ret")
              /\ ret' = [ret EXCEPT ![w] = "raised"]
    /\ UNCHANGED <<shared, op, snap, pushes, pre, alone, ticks, script, food_trackers, rest>>

\* line 53: self.timer_remaining = new_step["duration"]
NextStepRemaining(w) ==
    /\ pc[w] = "n_rem"
    /\ timer_remaining' = tmp[w]
    /\ Wrote(w)
    /\ Dead(w)
    /\ Goto(w, "n_run")
    /\ UNCHANGED <<current_step_index, timer_is_running, op, snap, ret, pushes,
                   ticks, script, food_trackers, rest>>

\* line 54: self.timer_is_running = False; line 56 then builds the status
NextStepRunning(w) ==
    /\ pc[w] = "n_run"
    /\ timer_is_running' = FALSE
    /\ Wrote(w)
    /\ Goto(w, "s_step")
    /\ UNCHANGED <<current_step_index, timer_remaining, op, tmp, snap, ret, pushes,
                   ticks, script, food_trackers, rest>>

next_step(w) ==
    \/ NextStepCheck(w) \/ NextStepLoad(w) \/ NextStepStore(w)
    \/ NextStepNew(w) \/ NextStepRemaining(w) \/ NextStepRunning(w)

\* ---------------------------------------------------------- pause_timer
\* line 38: self.timer_is_running = False; line 40 then builds the status
pause_timer_toggling(w) ==
    /\ pc[w] = "idle"
    /\ BeginWrite(w, "pause_timer")
    /\ script' = ScriptAfterCommand("pause_timer")
    /\ timer_is_running' = ~timer_is_running
    /\ Goto(w, "s_step")
    /\ UNCHANGED <<current_step_index, timer_remaining, tmp, snap, ret, ticks, food_trackers, rest>>
pause_timer(w) ==
    /\ pc[w] = "idle"
    /\ BeginWrite(w, "pause_timer")
    /\ script' = ScriptAfterCommand("pause_timer")
    /\ timer_is_running' = FALSE
    /\ Goto(w, "s_step")
    /\ UNCHANGED <<current_step_index, timer_remaining, tmp, snap, ret, ticks, food_trackers, rest>>

\* --------------------------------------------------------- resume_timer
\* line 44: self.timer_is_running = True; line 46 then builds the status
resume_timer(w) ==
    /\ pc[w] = "idle"
    /\ BeginWrite(w, "resume_timer")
    /\ script' = ScriptAfterCommand("resume_timer")
    /\ timer_is_running' = TRUE
    /\ Goto(w, "s_step")
    /\ UNCHANGED <<current_step_index, timer_remaining, tmp, snap, ret, ticks, food_trackers, rest>>

\* ---------------------------------------------------- command_repeat_step
\* line 94: push_progress_update(recipe_manager.get_current_status())
command_repeat_step_restarting(w) ==
    /\ pc[w] = "idle"
    /\ BeginWrite(w, "repeat_step")
    /\ script' = ScriptAfterCommand("repeat_step")
    /\ timer_remaining' = Duration(current_step_index)
    /\ Goto(w, "s_step")
    /\ UNCHANGED <<current_step_index, timer_is_running, tmp, snap, ret, ticks, food_trackers, rest>>
command_repeat_step(w) ==
    /\ pc[w] = "idle"
    /\ Begin(w, "repeat_step")
    /\ script' = ScriptAfterCommand("repeat_step")
    /\ Goto(w, "s_step")
    /\ UNCHANGED <<shared, tmp, snap, ret, alone, ticks, food_trackers, rest>>

\* The request handler returns its response (200, or 500 after an exception)
\* and the thread is free for the next request.
Return(w) ==
    /\ pc[w] = "ret"
    /\ Goto(w, "idle")
    /\ op' = [op EXCEPT ![w] = "none"]
    /\ tmp' = [tmp EXCEPT ![w] = -1]
    /\ snap' = [snap EXCEPT ![w] = NoSnap]
    /\ ret' = [ret EXCEPT ![w] = "none"]
    /\ pushes' = [pushes EXCEPT ![w] = 0]
    /\ pre' = [pre EXCEPT ![w] = NoState]
    /\ alone' = [alone EXCEPT ![w] = TRUE]
    /\ ticks' = IF \A u \in Workers \ {w} : pc[u] = "idle" THEN 0 ELSE ticks
    /\ UNCHANGED <<shared, script, food_trackers, rest>>

\* ------------------------------------------------------ _decrement_timer
\* line 64: the operands of the guard, and line 65: the value stored
TimerRunningIgnored == TRUE
TimerRunning == timer_is_running
TimerPositiveNoFloor == timer_remaining >= 0
TimerPositive == timer_remaining > 0
DecrementedByTwo(v) == v - 2
Decremented(v) == v - 1

\* line 132: while not thread_stop_event.is_set()
TimerLoopContinues == ~thread_stop_event

\* line 132 finds the event unset: line 133 calls _decrement_timer
TimerTest ==
    /\ pc[Timer] = "idle"
    /\ TimerLoopContinues
    /\ \/ \A w \in Workers : pc[w] = "idle"
       \/ ticks < MaxLag
    /\ ticks' = IF \A w \in Workers : pc[w] = "idle" THEN 0 ELSE ticks + 1
    /\ Goto(Timer, "d_run")
    /\ UNCHANGED <<shared, op, tmp, snap, ret, pushes, pre, alone, script,
                   food_trackers, rest>>

\* line 64, first operand: self.timer_is_running
DecrementCheckRunning ==
    /\ pc[Timer] = "d_run"
    /\ Begin(Timer, "tick")
    /\ script' = ScriptAfterTick
    /\ Goto(Timer, IF TimerRunning THEN "d_rem" ELSE "sleep")
    /\ UNCHANGED <<shared, tmp, snap, ret, alone, ticks, food_trackers, rest>>

\* line 64, second operand: self.timer_remaining > 0
DecrementCheckRemaining ==
    /\ pc[Timer] = "d_rem"
    /\ Goto(Timer, IF TimerPositive THEN "d_load" ELSE "sleep")
    /\ UNCHANGED <<shared, op, tmp, snap, ret, pushes, pre, alone, ticks, script, food_trackers, rest>>

\* line 65: self.timer_remaining -= 1   (load)
DecrementLoad ==
    /\ pc[Timer] = "d_load"
    /\ tmp' = [tmp EXCEPT ![Timer] = timer_remaining]
    /\ Goto(Timer, "d_store")
    /\ UNCHANGED <<shared, op, snap, ret, pushes, pre, alone, ticks, script, food_trackers, rest>>

\* line 65: self.timer_remaining -= 1   (store); line 67 then builds the status
DecrementStore ==
    /\ pc[Timer] = "d_store"
    /\ timer_remaining' = Decremented(tmp[Timer])
    /\ Wrote(Timer)
    /\ Dead(Timer)
    /\ Goto(Timer, "s_step")
    /\ UNCHANGED <<current_step_index, timer_is_running, op, snap, ret, pushes,
                   ticks, script, food_trackers, rest>>

decrement_timer ==
    \/ DecrementCheckRunning \/ DecrementCheckRemaining
    \/ DecrementLoad \/ DecrementStore

\* ------------------------------------------------------ timer_thread_loop
\* line 134: socketio.sleep(1); the loop then tests the stop event, which
\* nothing in the program sets, and goes round again
TimerSleep ==
    /\ pc[Timer] = "sleep"
    /\ Goto(Timer, "idle")
    /\ op' = [op EXCEPT ![Timer] = "none"]
    /\ tmp' = [tmp EXCEPT ![Timer] = -1]
    /\ snap' = [snap EXCEPT ![Timer] = NoSnap]
    /\ ret' = [ret EXCEPT ![Timer] = "none"]
    /\ pushes' = [pushes EXCEPT ![Timer] = 0]
    /\ pre' = [pre EXCEPT ![Timer] = NoState]
    /\ alone' = [alone EXCEPT ![Timer] = TRUE]
    /\ UNCHANGED <<shared, ticks, script, food_trackers, rest>>

\* line 132 finds the event set: the loop ends and the task returns
TimerStopped ==
    /\ pc[Timer] = "idle"
    /\ ~TimerLoopContinues
    /\ Goto(Timer, "exited")
    /\ UNCHANGED <<shared, op, tmp, snap, ret, pushes, pre, alone, ticks, script,
                   food_trackers, rest>>

timer_thread_loop ==
    \/ TimerTest
    \/ decrement_timer
    \/ get_current_status(Timer)
    \/ push_progress_update(Timer)
    \/ TimerSleep

\* One request thread serving the command endpoints.
Command(w) ==
    \/ next_step(w)
    \/ pause_timer(w)
    \/ resume_timer(w)
    \/ command_repeat_step(w)
    \/ get_current_status(w)
    \/ push_progress_update(w)
    \/ Return(w)

\* The timer loop and one request thread.
Next ==
    \/ timer_thread_loop
    \/ Command(1)

Spec == Init /\ [][Next]_vars

\* Two request threads serving commands at the same time, the timer loop idle.
NextWorkers ==
    \E w \in Workers : Command(w)

SpecWorkers == Init /\ [][NextWorkers]_vars

\* ------------------------------------------------------- progress_tracker
\* A frame is one row of FrameWidth pixels, a pixel a BGR triple; a box is
\* (x, y, w, h), where x and y may lie before the frame's first column and
\* row; the boxes tried end within the frame's one row.
FrameWidth == 2

Palette == { <<0, 0, 0>>, <<10, 0, 0>>, <<60, 0, 0>>, <<30, 40, 0>> }
Frames == [0..(FrameWidth - 1) -> Palette]
Boxes ==
    { box \in ((-1)..(FrameWidth - 1)) \X ((-1)..0) \X (1..FrameWidth) \X (1..2) :
        box[2] + box[4] <= 1 }

RECURSIVE Factorial(_)
Factorial(n) == IF n <= 1 THEN 1 ELSE n * Factorial(n - 1)

\* Colors are means of 1..FrameWidth pixels: they are kept exactly, as integer
\* vectors in units of 1/ColorScale.
ColorScale == Factorial(FrameWidth)

\* A bound of a slice over an axis of the given length: a negative bound
\* counts from the end of the axis, and the bound is then clipped to the axis.
SliceBound(v, length) ==
    IF v < 0
      THEN (IF v + length < 0 THEN 0 ELSE v + length)
      ELSE (IF v > length THEN length ELSE v)

\* the indices a slice [from:to] keeps
Slice(from, to, length) ==
    { i \in 0..(length - 1) :
        i >= SliceBound(from, length) /\ i < SliceBound(to, length) }

\* line 57: roi = image[y:y+h, x:x+w]   (the columns and rows the slice
\* keeps, of a frame one row high)
RoiColumns(box) == Slice(box[1], box[1] + box[3], FrameWidth)
RoiRows(box) == Slice(box[2], box[2] + box[4], 1)

RECURSIVE SumChannel(_, _, _)
SumChannel(image, cols, k) ==
    IF cols = {} THEN 0
    ELSE LET c == CHOOSE c \in cols : TRUE
         IN  image[c][k] + SumChannel(image, cols \ {c}, k)

\* lines 56-61: the mean BGR color inside the box, [0, 0, 0] for an empty roi
get_average_color(image, box) ==
    LET cols == RoiColumns(box)
        rows == RoiRows(box)
        n    == Cardinality(cols) * Cardinality(rows)
    IN  IF n = 0
          THEN <<0, 0, 0>>
          ELSE [k \in 1..3 |->
                  (ColorScale * Cardinality(rows) * SumChannel(image, cols, k)) \div n]

\* class attribute COLOR_CHANGE_THRESHOLD = 50.0
COLOR_CHANGE_THRESHOLD == 50

Square(v) == v * v

\* np.linalg.norm(a - b) squared, in units of 1/ColorScale^2
NormSquared(a, b) ==
    Square(a[1] - b[1]) + Square(a[2] - b[2]) + Square(a[3] - b[3])

\* line 98: color_distance > self.COLOR_CHANGE_THRESHOLD
ReachesThreshold(a, b) ==
    NormSquared(a, b) >= Square(COLOR_CHANGE_THRESHOLD * ColorScale)
ExceedsThreshold(a, b) ==
    NormSquared(a, b) > Square(COLOR_CHANGE_THRESHOLD * ColorScale)

\* FoodItemTracker.__init__
FoodItemTrackerFromFirstPixel(item_id, initial_box, initial_frame) ==
    [ id |-> item_id,
      box |-> initial_box,
      initial_color |-> get_average_color(initial_frame, <<0, 0, 1, 1>>),
      current_color |-> get_average_color(initial_frame, <<0, 0, 1, 1>>),
      state |-> "raw",
      state_changed_this_frame |-> FALSE ]
FoodItemTracker(item_id, initial_box, initial_frame) ==
    [ id |-> item_id,
      box |-> initial_box,
      initial_color |-> get_average_color(initial_frame, initial_box),
      current_color |-> get_average_color(initial_frame, initial_box),
      state |-> "raw",
      state_changed_this_frame |-> FALSE ]

\* lines 94-98: the item turns cooked in this update
CooksWhateverTheState(self, color) == ExceedsThreshold(color, self.initial_color)
Cooks(self, color) == self.state = "raw" /\ ExceedsThreshold(color, self.initial_color)

\* FoodItemTracker.update
update(self, new_box, current_frame) ==
    LET color == get_average_color(current_frame, new_box)
        cooks == Cooks(self, color)
    IN  [ self EXCEPT
            !.box = new_box,
            !.current_color = color,
            !.state = IF cooks THEN "cooked" ELSE self.state,
            !.state_changed_this_frame = cooks ]

\* A tracker is constructed for the first item, as server.py does while
\* food_trackers is empty (lines 163-166): its key and id are the counter's
\* value, and the counter is then advanced.
TrackerCreate ==
    /\ DOMAIN food_trackers = {}
    /\ \E box \in Boxes, image \in Frames :
          food_trackers' =
              (tracker_id_counter :> FoodItemTracker(tracker_id_counter, box, image))
    /\ tracker_id_counter' = tracker_id_counter + 1
    /\ UNCHANGED <<recipe, thread_stop_event, video_pc, frame, detected_items,
                   cycle, state_changes, network>>

\* tracker.update(new_box, current_frame) on the tracked item
TrackerUpdate ==
    /\ 0 \in DOMAIN food_trackers
    /\ \E box \in Boxes, image \in Frames :
          food_trackers' = [food_trackers EXCEPT ![0] = update(@, box, image)]
    /\ UNCHANGED <<recipe, rest>>

NextTracker == TrackerCreate \/ TrackerUpdate

SpecTracker == Init /\ [][NextTracker]_vars

\* --------------------------------------------------- video_processing_loop
\* line 144: the image cv2.imread loads: a dark pixel beside a bright one
TestImage == [c \in 0..(FrameWidth - 1) |-> IF c = 0 THEN <<0, 0, 0>> ELSE <<60, 0, 0>>]

\* items the detector may report in one frame
MaxDetections == 2

\* int(v / 2) for an integer v: the quotient truncated towards zero
HalfTruncated(v) == IF v >= 0 THEN v \div 2 ELSE -((-v) \div 2)

\* FoodDetector.py lines 97-103: the box of a detection whose center and
\* size, scaled to the frame and truncated, are (center_x, center_y) and (w, h)
BoxOf(center_x, center_y, w, h) ==
    <<HalfTruncated(2 * center_x - w), HalfTruncated(2 * center_y - h), w, h>>

\* The detector's findings in a frame, before its allow-list is applied:
\* labelled boxes, of items centered on the frame's left edge, its middle or
\* its right edge, one pixel or the whole frame wide, one or two rows high.
Labels == {"apple", "dog"}
DetectedBoxes ==
    { BoxOf(center_x, 0, w, h) :
        center_x \in {0, FrameWidth \div 2, FrameWidth}, w \in {1, FrameWidth}, h \in 1..2 }
Found == [label : Labels, box : DetectedBoxes]
Findings == UNION { [1..n -> Found] : n \in 0..MaxDetections }

\* FoodDetector.py lines 71-75
food_items ==
    { "bottle", "wine glass", "cup", "fork", "knife", "spoon", "bowl",
      "banana", "apple", "sandwich", "orange", "broccoli", "carrot",
      "hot dog", "pizza", "donut", "cake" }

IsFood(found) == found.label \in food_items

\* FoodDetector.py lines 109-122: the results detect_food returns, the
\* findings whose label is in food_items, in order
detect_food(findings) == SelectSeq(findings, IsFood)

\* lines 141-149: the loop's task starts: the image is read, the counter set
VideoStart ==
    /\ video_pc = "start"
    /\ \E image \in {TestImage, NoFrame} :
          /\ frame' = image
          /\ IF image = NoFrame
               THEN /\ video_pc' = "exited"
                    /\ cycle' = [NoCycle EXCEPT !.outcome = "no_frame"]
               ELSE /\ video_pc' = "test"
                    /\ cycle' = cycle
    /\ tracker_id_counter' = 0
    /\ UNCHANGED <<recipe, food_trackers, thread_stop_event, detected_items,
                   state_changes, network>>

\* line 151: while not thread_stop_event.is_set()
VideoLoopIgnoresStop == TRUE
VideoLoopContinues == ~thread_stop_event

\* line 151 finds the event unset: a detection cycle begins
VideoTest ==
    /\ video_pc = "test"
    /\ VideoLoopContinues
    /\ video_pc' = "body"
    /\ UNCHANGED <<recipe, food_trackers, thread_stop_event, frame, tracker_id_counter,
                   detected_items, cycle, state_changes, network>>

\* line 151 finds the event set: the loop ends and the task returns
VideoStopped ==
    /\ video_pc = "test"
    /\ ~VideoLoopContinues
    /\ video_pc' = "exited"
    /\ cycle' = [NoCycle EXCEPT !.outcome = "stopped"]
    /\ UNCHANGED <<recipe, food_trackers, thread_stop_event, frame, tracker_id_counter,
                   detected_items, state_changes, network>>

\* line 171: if tracker.state_changed_this_frame
StateIsCooked(tracker) == tracker.state = "cooked"
StateChanged(tracker) == tracker.state_changed_this_frame

\* lines 173-177: update_data
StateChangeEvent(tracker) ==
    [event |-> "state_change", itemId |-> tracker.id, newState |-> tracker.state]

\* lines 163-166: the trackers after the test of "if not food_trackers"
TrackersAlwaysNew(item_box) ==
    (tracker_id_counter :> FoodItemTracker(tracker_id_counter, item_box, frame))
TrackersWith(item_box) ==
    IF DOMAIN food_trackers = {}
      THEN (tracker_id_counter :> FoodItemTracker(tracker_id_counter, item_box, frame))
      ELSE food_trackers

\* line 156: detect_food returns; line 158: if detected_items
VideoDetect(findings) ==
    /\ video_pc = "body"
    /\ detected_items' = detect_food(findings)
    /\ IF detected_items' = << >>
         THEN /\ video_pc' = "sleep"
              /\ cycle' = [cycle EXCEPT !.outcome = "ok"]
         ELSE /\ video_pc' = "create"
              /\ cycle' = cycle
    /\ UNCHANGED <<recipe, food_trackers, thread_stop_event, frame, tracker_id_counter,
                   state_changes, network>>

\* lines 160-166: the first item's box; a tracker is made if there is none
VideoCreate ==
    LET item_box == detected_items[1].box
        creates  == DOMAIN food_trackers = {}
    IN  /\ video_pc = "create"
        /\ food_trackers' = TrackersWith(item_box)
        /\ tracker_id_counter' = IF creates THEN tracker_id_counter + 1
                                             ELSE tracker_id_counter
        /\ cycle' = [cycle EXCEPT !.created = creates]
        /\ video_pc' = "update"
        /\ UNCHANGED <<recipe, thread_stop_event, frame, detected_items,
                       state_changes, network>>

\* lines 168-169: tracker = food_trackers[0]; tracker.update(item_box, frame)
\* (food_trackers[0] raises KeyError when there is no tracker 0: the loop
\* then ends as for any other exception, lines 184-186)
VideoUpdate ==
    LET item_box == detected_items[1].box
    IN  /\ video_pc = "update"
        /\ IF 0 \in DOMAIN food_trackers
             THEN /\ food_trackers' =
                        [food_trackers EXCEPT ![0] = update(@, item_box, frame)]
                  /\ cycle' = [cycle EXCEPT !.updated = TRUE]
                  /\ video_pc' = "changed"
             ELSE /\ food_trackers' = food_trackers
                  /\ cycle' = [cycle EXCEPT !.outcome = "error"]
                  /\ video_pc' = "exited"
        /\ UNCHANGED <<recipe, thread_stop_event, frame, tracker_id_counter,
                       detected_items, state_changes, network>>

\* line 171: the test of the flag the update has set
VideoCheckChanged ==
    /\ video_pc = "changed"
    /\ IF StateChanged(food_trackers[0])
         THEN /\ video_pc' = "emit"
              /\ cycle' = cycle
         ELSE /\ video_pc' = "sleep"
              /\ cycle' = [cycle EXCEPT !.outcome = "ok"]
    /\ UNCHANGED <<recipe, food_trackers, thread_stop_event, frame, tracker_id_counter,
                   detected_items, state_changes, network>>

\* lines 172-178: update_data is built and pushed
VideoEmit ==
    /\ video_pc = "emit"
    /\ Broadcast(Video)
    /\ state_changes' = state_changes + 1
    /\ cycle' = [cycle EXCEPT !.outcome = "ok",
                              !.events = <<StateChangeEvent(food_trackers[0])>>]
    /\ video_pc' = "sleep"
    /\ UNCHANGED <<recipe, food_trackers, thread_stop_event, frame, tracker_id_counter,
                   detected_items>>

\* lines 156-178: a detection cycle, from detect_food's return to the end of
\* the try block
VideoCycle ==
    \/ \E findings \in Findings : VideoDetect(findings)
    \/ VideoCreate
    \/ VideoUpdate
    \/ VideoCheckChanged
    \/ VideoEmit

\* lines 180-183: detect_food raises cv2.error: break
VideoFatalErrorStopsAll ==
    /\ video_pc = "body"
    /\ video_pc' = "exited"
    /\ cycle' = [NoCycle EXCEPT !.outcome = "cv2.error"]
    /\ thread_stop_event' = TRUE
    /\ UNCHANGED <<recipe, food_trackers, frame, tracker_id_counter,
                   detected_items, state_changes, network>>
VideoFatalError ==
    /\ video_pc = "body"
    /\ video_pc' = "exited"
    /\ cycle' = [NoCycle EXCEPT !.outcome = "cv2.error"]
    /\ UNCHANGED <<recipe, food_trackers, thread_stop_event, frame, tracker_id_counter,
                   detected_items, state_changes, network>>

\* lines 184-186: another exception is raised in the try block, by
\* detect_food or by the emit of line 178: break
VideoOtherError ==
    /\ video_pc \in {"body", "emit"}
    /\ video_pc' = "exited"
    /\ cycle' = [cycle EXCEPT !.outcome = "error"]
    /\ UNCHANGED <<recipe, food_trackers, thread_stop_event, frame, tracker_id_counter,
                   detected_items, state_changes, network>>

\* line 188: socketio.sleep(2), and back to the test of line 151
VideoSleep ==
    /\ video_pc = "sleep"
    /\ video_pc' = "test"
    /\ detected_items' = << >>
    /\ cycle' = NoCycle
    /\ UNCHANGED <<recipe, food_trackers, thread_stop_event, frame, tracker_id_counter,
                   state_changes, network>>

video_processing_loop ==
    \/ VideoStart
    \/ VideoTest
    \/ VideoCycle
    \/ VideoFatalError
    \/ VideoOtherError
    \/ VideoSleep

\* thread_stop_event.set(): the stop signal, raised from outside the loops
SetStop ==
    /\ ~thread_stop_event
    /\ thread_stop_event' = TRUE
    /\ UNCHANGED <<recipe, food_trackers, detection, network>>

\* The detection loop on its own.
NextVideo == video_processing_loop

SpecVideo == Init /\ [][NextVideo]_vars

\* ------------------------------------------------- the server's tasks
\* seconds the timer loop counts down within a step
MaxCountdown == 2

\* The timer loop starts an iteration only while the countdown of the current
\* step stands less than MaxCountdown seconds below the step's duration.
CountdownBounded ==
    pc[Timer] = "idle" =>
        /\ InRange(current_step_index)
        /\ timer_remaining <= Duration(current_step_index)
        /\ timer_remaining > Duration(current_step_index) - MaxCountdown

\* The server of lines 190-195 with a detection backend that is broken, as
\* the comment of lines 153-154 expects: the timer loop, a request thread,
\* and the detection loop, whose detect_food raises cv2.error.
NextDegraded ==
    \/ CountdownBounded /\ timer_thread_loop
    \/ Command(1)
    \/ VideoStart
    \/ VideoTest
    \/ VideoFatalError

SpecDegraded == Init /\ [][NextDegraded]_vars

\* the detector reports one item of food, one pixel wide and one row high
OneFood ==
    { <<found>> : found \in { f \in Found : IsFood(f) /\ f.box[3] = 1 /\ f.box[4] = 1 } }

\* A request thread that serves POST /command/resume_timer only.
ResumeOnly(w) ==
    \/ resume_timer(w)
    \/ get_current_status(w)
    \/ push_progress_update(w)
    \/ Return(w)

\* The two background tasks, each with the way out of its loop.
TimerTask ==
    \/ CountdownBounded /\ timer_thread_loop
    \/ TimerStopped

\* (the detector reporting the same item of food, on the frame's first
\* pixel, in every frame: the item never changes state)
VideoTask ==
    \/ VideoStart
    \/ VideoTest
    \/ \E findings \in { found \in OneFood : found[1].box = <<0, 0, 1, 1>> } :
          VideoDetect(findings)
    \/ VideoCreate
    \/ VideoUpdate
    \/ VideoCheckChanged
    \/ VideoSleep
    \/ VideoStopped

\* The server with the stop signal: the two tasks (the detector reporting an
\* item of food in every frame), a request thread that starts the timer, and
\* thread_stop_event set from outside at any moment. Both tasks are
\* scheduled again and again (socketio.sleep returns).
NextStop ==
    \/ TimerTask
    \/ VideoTask
    \/ ResumeOnly(1)
    \/ SetStop

SpecStop ==
    Init /\ [][NextStop]_vars /\ WF_vars(TimerTask) /\ WF_vars(VideoTask)

\* ------------------------------------------------------------ the clients
\* line 112: the welcome, a status_update sent to the connecting client alone
Welcome == Event(-1, 0)

\* the event a connecting client would be sent if the server replayed
LastEventOf(p) == IF emitted[p] > 0 THEN {Event(p, emitted[p])} ELSE {}

\* lines 107-112: a client connects: handle_connect
ConnectReplaying(s) ==
    /\ s \notin clients
    /\ clients' = clients \cup {s}
    /\ inbox' = [inbox EXCEPT ![s] = {Welcome} \cup LastEventOf(Timer)]
    /\ joined' = [joined EXCEPT ![s] = emitted]
    /\ UNCHANGED <<recipe, food_trackers, thread_stop_event, detection, emitted>>
Connect(s) ==
    /\ s \notin clients
    /\ clients' = clients \cup {s}
    /\ inbox' = [inbox EXCEPT ![s] = {Welcome}]
    /\ joined' = [joined EXCEPT ![s] = emitted]
    /\ UNCHANGED <<recipe, food_trackers, thread_stop_event, detection, emitted>>

\* lines 114-117: a client disconnects: handle_disconnect
Disconnect(s) ==
    /\ s \in clients
    /\ clients' = clients \ {s}
    /\ inbox' = [inbox EXCEPT ![s] = {}]
    /\ joined' = [joined EXCEPT ![s] = NoneEmitted]
    /\ UNCHANGED <<recipe, food_trackers, thread_stop_event, detection, emitted>>

\* The timer loop and its clients: the timer loop, a request thread that
\* starts the timer, and the clients connecting and disconnecting.
NextClients ==
    \/ CountdownBounded /\ timer_thread_loop
    \/ ResumeOnly(1)
    \/ \E s \in Subscribers : Connect(s)
    \/ \E s \in Subscribers : Disconnect(s)

SpecClients == Init /\ [][NextClients]_vars

\* ========================================================== the claims
\* The payload thread t handed to push_progress_update in its operation.
Pushed(t) == pushes[t] > 0

\* The snapshot of RecipeState s, as get_current_status builds it.
SnapshotOf(s) == [step |-> s.idx, idx |-> s.idx, rem |-> s.rem, run |-> s.run]

\* The RecipeStates the state machine takes when its operations run one at a
\* time: a step of the recipe and a countdown between 0 and that step's duration.
Serial(s) == InRange(s.idx) /\ s.rem >= 0 /\ s.rem <= Duration(s.idx)

\* C1: every snapshot carried by an emitted event is untorn: its
\* (currentStepIndex, timerRemainingSeconds, timerRunning) triple is a
\* RecipeState as it stood between two complete operations (a step of the
\* recipe with a countdown of that step), never a mix of fields from before
\* and after a concurrent operation.
C1_SnapshotUntorn ==
    \A t \in Threads : Pushed(t) => Serial(snap[t])

\* C2: timerRemainingSeconds >= 0 in every reachable state.
C2_TimerNeverNegative == timer_remaining >= 0

\* C2 witness: the timer loop examines a running countdown that stands at 0.
C2_Witness ==
    /\ timer_remaining = 0
    /\ timer_is_running
    /\ pc[Timer] = "d_rem"

\* C3: 0 <= currentStepIndex < len(steps) in every reachable state, also with
\* advanceStep() commands executing concurrently, so that building a snapshot
\* never fails.
C3_IndexInRange ==
    /\ InRange(current_step_index)
    /\ \A t \in Threads : ret[t] # "raised"

\* C4: advanceStep() called on the last step returns false, emits no event,
\* does not raise, and leaves currentStepIndex, timerRemainingSeconds and
\* timerRunning as they were (as long as no other thread has written them).
C4_AdvanceOnLastStep ==
    \A w \in Workers :
        (pc[w] = "ret" /\ op[w] = "next_step" /\ pre[w].idx = total_steps - 1)
            => /\ ret[w] = "false"
               /\ pushes[w] = 0
               /\ alone[w] => State = pre[w]

\* C4 witness: a next_step begun on the last step has ended, nothing else
\* having written the state meanwhile.
C4_Witness ==
    \E w \in Workers :
        /\ pc[w] = "ret" /\ op[w] = "next_step" /\ ret[w] = "false"
        /\ pre[w].idx = total_steps - 1
        /\ alone[w]

\* C5: whenever advanceStep() returns true, at the moment it returns
\* currentStepIndex is one greater than before the call, timerRunning is false,
\* timerRemainingSeconds is the new step's duration, and exactly one event
\* carrying that new snapshot has been emitted, also with tick() running
\* concurrently.
AdvanceReturnsTrue(w) ==
    pc[w] = "push" /\ op[w] = "next_step" /\ pc'[w] = "ret"

C5_AdvanceResult ==
    [][ \A w \in Workers :
          AdvanceReturnsTrue(w) =>
              /\ current_step_index' = pre[w].idx + 1
              /\ InRange(current_step_index')
              /\ timer_is_running' = FALSE
              /\ timer_remaining' = Duration(current_step_index')
              /\ pushes'[w] = 1
              /\ snap'[w] = SnapshotOf(State') ]_vars

\* C6: a tick() made while timerRunning is false leaves timerRemainingSeconds
\* (and the rest of RecipeState) unchanged and emits no TimerTick event: the
\* iteration ends at its first test. So once pause() or a successful
\* advanceStep() has cleared the flag, the ticks begun before the flag is set
\* again change nothing.
TickBegins == pc[Timer] = "d_run" /\ pc'[Timer] # "d_run"

C6_PausedTickChangesNothing ==
    [][ (TickBegins /\ ~timer_is_running) =>
            /\ pc'[Timer] = "sleep"
            /\ ret'[Timer] = "none"
            /\ pushes'[Timer] = 0
            /\ UNCHANGED shared ]_vars

\* C6 witness: the timer ran on the first step and was paused, no command is
\* in flight, and a tick begun since has ended without an event.
C6_Witness ==
    /\ pc[Timer] = "sleep" /\ op[Timer] = "tick"
    /\ alone[Timer] /\ ~pre[Timer].run
    /\ pre[Timer].rem < Duration(pre[Timer].idx)
    /\ pushes[Timer] = 0
    /\ State = pre[Timer]
    /\ current_step_index = 0
    /\ \A w \in Workers : pc[w] = "idle"

\* C7: a tick() executed when timerRunning is true and timerRemainingSeconds
\* is above 0 decrements timerRemainingSeconds by exactly 1, leaves
\* currentStepIndex and timerRunning unchanged, and emits exactly one TimerTick
\* event whose snapshot holds the decremented value.
TickCompleted == pc[Timer] = "sleep" /\ op[Timer] = "tick" /\ alone[Timer]

C7_RunningTickDecrements ==
    (TickCompleted /\ pre[Timer].run /\ pre[Timer].rem > 0)
        => /\ State = [pre[Timer] EXCEPT !.rem = @ - 1]
           /\ pushes[Timer] = 1
           /\ ret[Timer] = "true"
           /\ snap[Timer] = SnapshotOf(State)

\* C7 witness: a tick of a running timer has completed on the second step.
C7_Witness ==
    /\ TickCompleted /\ pre[Timer].run /\ pre[Timer].rem > 0
    /\ pushes[Timer] = 1
    /\ current_step_index = 1

\* C8: the timer never auto-advances: a tick() that finds the running timer at
\* 0 leaves currentStepIndex, timerRemainingSeconds and timerRunning unchanged
\* and emits no event, and currentStepIndex changes only by the store of an
\* explicit advanceStep() command.
TickFindsZero ==
    pc[Timer] = "d_rem" /\ pc'[Timer] # "d_rem" /\ timer_remaining = 0

AdvanceStores ==
    \E w \in Workers : pc[w] = "n_store" /\ op[w] = "next_step" /\ pc'[w] = "n_new"

C8_NoAutoAdvance ==
    [][ /\ TickFindsZero =>
             /\ pc'[Timer] = "sleep"
             /\ pushes'[Timer] = 0
             /\ UNCHANGED shared
        /\ current_step_index' # current_step_index => AdvanceStores ]_vars

\* C8 witness: a tick of the running timer begun at 0 has ended with the state
\* as it was and no event, on a step that is not the last.
C8_Witness ==
    /\ TickCompleted /\ pre[Timer].run /\ pre[Timer].rem = 0
    /\ pushes[Timer] = 0
    /\ State = pre[Timer]
    /\ current_step_index < total_steps - 1

\* C9: from the initial state (step 0, 300 seconds, paused) of the recipe with
\* durations (300, 480, 60), resume() then five tick() calls yield
\* timerRemainingSeconds = 295 and timerRunning = true, and a following
\* advanceStep() yields currentStepIndex = 1, timerRemainingSeconds = 480,
\* timerRunning = false.
ScenarioTicked ==
    script = ScenarioTicks + 1 /\ pc[Timer] \in {"sleep", "idle"}

ScenarioAdvanced ==
    script = ScenarioTicks + 2 /\ \A w \in Workers : pc[w] \in {"ret", "idle"}

C9_Scenario ==
    /\ Duration(0) = 300 /\ Duration(1) = 480 /\ Duration(2) = 60
    /\ ScenarioTicked =>
          State = [idx |-> 0, rem |-> 300 - ScenarioTicks, run |-> TRUE]
    /\ ScenarioAdvanced =>
          State = [idx |-> 1, rem |-> 480, run |-> FALSE]

\* C9 witness: the scenario has run to its end, the advanceStep() returned.
C9_Witness ==
    /\ ScenarioAdvanced
    /\ \E w \in Workers : pc[w] = "ret" /\ op[w] = "next_step" /\ ret[w] = "true"

\* C10: a tracked item's state is monotonic: it starts Raw, and once it is
\* Cooked every later update, for any box and frame, leaves it Cooked and
\* reports transitioned = false.
Tracked == 0 \in DOMAIN food_trackers

C10_CookedIsFinal ==
    [][ /\ (~Tracked /\ Tracked') => food_trackers'[0].state = "raw"
        /\ (Tracked /\ food_trackers[0].state = "cooked") =>
              /\ food_trackers'[0].state = "cooked"
              /\ food_trackers'[0].state_changed_this_frame = FALSE ]_vars

\* C10 witness: a cooked item has been updated with a frame that shows its
\* initial color again.
C10_Witness ==
    /\ Tracked
    /\ food_trackers[0].state = "cooked"
    /\ food_trackers[0].state_changed_this_frame = FALSE
    /\ food_trackers[0].current_color = food_trackers[0].initial_color

\* C11: update() on a Raw item makes it Cooked and reports transitioned = true
\* if and only if the Euclidean distance between currentColor and initialColor
\* is strictly greater than 50: from (0,0,0), a current color of (60,0,0)
\* transitions, (10,0,0) does not, and (30,40,0), at distance exactly 50, does
\* not; otherwise the item stays Raw and transitioned = false.
UpdatesRaw == Tracked /\ Tracked' /\ food_trackers[0].state = "raw"

Apart(t) ==
    (t.current_color[1] - t.initial_color[1]) * (t.current_color[1] - t.initial_color[1])
  + (t.current_color[2] - t.initial_color[2]) * (t.current_color[2] - t.initial_color[2])
  + (t.current_color[3] - t.initial_color[3]) * (t.current_color[3] - t.initial_color[3])

Shade(b, g, r) == <<b * ColorScale, g * ColorScale, r * ColorScale>>

C11_ThresholdIsStrict ==
    [][ UpdatesRaw =>
          LET t   == food_trackers'[0]
              far == Apart(t) > 50 * 50 * ColorScale * ColorScale
          IN  /\ t.initial_color = food_trackers[0].initial_color
              /\ far => (t.state = "cooked" /\ t.state_changed_this_frame)
              /\ ~far => (t.state = "raw" /\ ~t.state_changed_this_frame)
              /\ t.initial_color = Shade(0, 0, 0) =>
                    /\ t.current_color = Shade(60, 0, 0) => t.state = "cooked"
                    /\ t.current_color = Shade(10, 0, 0) => t.state = "raw"
                    /\ t.current_color = Shade(30, 40, 0) => t.state = "raw" ]_vars

\* C11 witness: an item first seen black has been updated with a color at
\* distance exactly 50 and is still raw.
C11_Witness ==
    /\ Tracked
    /\ food_trackers[0].initial_color = Shade(0, 0, 0)
    /\ food_trackers[0].current_color = Shade(30, 40, 0)
    /\ food_trackers[0].state = "raw"
    /\ ~food_trackers[0].state_changed_this_frame

\* C12: in the detection loop a StateChange event is emitted exactly once for
\* each update() that reports transitioned = true and never for one that
\* reports false; so over any run of the loop at most one StateChange event is
\* emitted for a tracked item.
CycleEnded == video_pc = "sleep"

StateChangesIn(events) ==
    Cardinality({ i \in DOMAIN events : events[i].event = "state_change" })

C12_OneStateChangePerTransition ==
    /\ CycleEnded =>
          /\ cycle.updated =>
                /\ StateChangesIn(cycle.events)
                      = IF food_trackers[0].state_changed_this_frame THEN 1 ELSE 0
                /\ \A i \in DOMAIN cycle.events :
                      cycle.events[i] = StateChangeEvent(food_trackers[0])
          /\ ~cycle.updated => cycle.events = << >>
    /\ state_changes <= Cardinality(DOMAIN food_trackers)

\* C12 witness: the item turned cooked in an earlier cycle, its event was
\* emitted then, and a later cycle has updated it without an event.
C12_Witness ==
    /\ CycleEnded /\ cycle.updated /\ cycle.events = << >>
    /\ food_trackers[0].state = "cooked"
    /\ state_changes = 1

\* C14: when the detection adapter fails in a cycle with an error that is not
\* the fatal backend error, the cycle is skipped and the loop continues: with
\* the stop signal not raised, the loop has not ended and goes on to a further
\* detection cycle.
C14_TransientErrorSkipsCycle ==
    (cycle.outcome = "error" /\ ~thread_stop_event) => video_pc # "exited"

\* C19: in every detection cycle the loop emits one DetectionOccurred event
\* for each qualifying detection the adapter returned, whether or not a
\* StateChange event is emitted in that cycle.
DetectionsIn(events) ==
    Cardinality({ i \in DOMAIN events : events[i].event = "detection" })

C19_DetectionEventPerItem ==
    CycleEnded => DetectionsIn(cycle.events) = Len(detected_items)

\* C13: after the detection adapter has failed with the fatal error the
\* detection loop has ended but the timer loop keeps running: it goes on to
\* its next iteration, a tick of the running timer still decrements it and
\* emits its event, and advanceStep, pause, resume and repeatCurrent are still
\* served, mutate the state and emit their events.
DetectionFailed == video_pc = "exited" /\ cycle.outcome = "cv2.error"

Served(w) ==
    /\ ENABLED next_step(w)
    /\ ENABLED pause_timer(w)
    /\ ENABLED resume_timer(w)
    /\ ENABLED command_repeat_step(w)

Effect(o, s) ==
    IF o = "next_step" THEN [idx |-> s.idx + 1, rem |-> Duration(s.idx + 1), run |-> FALSE]
    ELSE IF o = "pause_timer" THEN [s EXCEPT !.run = FALSE]
    ELSE IF o = "resume_timer" THEN [s EXCEPT !.run = TRUE]
    ELSE s

C13_TimerOutlivesDetection ==
    DetectionFailed =>
        /\ pc[Timer] \notin {"exited", "crashed"}
        /\ (pc[Timer] = "idle" /\ \A w \in Workers : pc[w] = "idle")
              => ENABLED TimerTest
        /\ pc[Timer] = "d_run" => ENABLED DecrementCheckRunning
        /\ pc[Timer] = "sleep" => ENABLED TimerSleep
        /\ (TickCompleted /\ pre[Timer].run /\ pre[Timer].rem > 0)
              => /\ State = [pre[Timer] EXCEPT !.rem = @ - 1]
                 /\ pushes[Timer] = 1
        /\ \A w \in Workers :
              /\ pc[w] = "idle" => Served(w)
              /\ (pc[w] = "ret" /\ ret[w] = "true" /\ alone[w])
                    => /\ State = Effect(op[w], pre[w])
                       /\ pushes[w] = 1

\* C13 witness: with the detection loop ended by the fatal error, a tick has
\* decremented the running timer of the second step and emitted its event.
C13_Witness ==
    /\ DetectionFailed
    /\ TickCompleted /\ pre[Timer].run /\ pre[Timer].rem > 0
    /\ pushes[Timer] = 1
    /\ current_step_index = 1
    /\ timer_remaining = Duration(1) - 1

\* C15: repeatCurrent() never mutates RecipeState: no step of it changes
\* currentStepIndex, timerRemainingSeconds or timerRunning; and it emits
\* exactly one event, whose snapshot is the RecipeState as it stood when the
\* command was called (nothing else having written the state meanwhile).
StepOfRepeat(w) ==
    pc'[w] # pc[w] /\ (op[w] = "repeat_step" \/ op'[w] = "repeat_step")

RepeatDone(w) == pc[w] = "ret" /\ op[w] = "repeat_step"

RepeatResult(w) ==
    RepeatDone(w) =>
        /\ pushes[w] = 1
        /\ ret[w] = "true"
        /\ alone[w] => (snap[w] = SnapshotOf(pre[w]) /\ State = pre[w])

C15_RepeatOnlyReports ==
    [][ \A w \in Workers :
          /\ StepOfRepeat(w) => UNCHANGED shared
          /\ RepeatResult(w)' ]_vars

\* C15 witness: a repeatCurrent() made on the second step while its timer was
\* running below the step's duration has emitted its event.
C15_Witness ==
    \E w \in Workers :
        /\ RepeatDone(w) /\ alone[w] /\ pushes[w] = 1
        /\ pre[w].idx = 1 /\ pre[w].run /\ pre[w].rem < Duration(1)

\* C20: pause() and resume() are idempotent on state: whatever the state
\* before, pause() leaves timerRunning false and resume() leaves it true, a
\* call that finds the flag already so leaves RecipeState as it was (twice in a
\* row gives what once gives), neither changes currentStepIndex or
\* timerRemainingSeconds, and every call emits one event carrying the snapshot
\* as the call has left it.
SwitchDone(w) == pc[w] = "ret" /\ op[w] \in {"pause_timer", "resume_timer"}

Switched(w) == op[w] = "resume_timer"

C20_PauseResumeIdempotent ==
    \A w \in Workers :
        SwitchDone(w) =>
            /\ timer_is_running = Switched(w)
            /\ current_step_index = pre[w].idx
            /\ pushes[w] = 1
            /\ snap[w].idx = current_step_index
            /\ snap[w].run = timer_is_running
            /\ alone[w] =>
                  /\ State = [pre[w] EXCEPT !.run = Switched(w)]
                  /\ snap[w] = SnapshotOf(State)
                  /\ pre[w].run = Switched(w) => State = pre[w]

\* C20 witness: a pause() called while the timer, run below the duration of
\* its step, stood paused already has emitted its event.
C20_Witness ==
    \E w \in Workers :
        /\ SwitchDone(w) /\ op[w] = "pause_timer" /\ alone[w]
        /\ ~pre[w].run /\ pre[w].rem < Duration(pre[w].idx)
        /\ pushes[w] = 1

\* C18: both loops test the stop signal at the top of every iteration: once
\* the signal is raised neither the timer loop nor the detection loop starts a
\* new iteration (each finishes at most the one in progress), and both loops
\* eventually exit.
TimerIterationBegins == pc[Timer] = "idle" /\ pc'[Timer] \notin {"idle", "exited"}

VideoIterationBegins == video_pc = "test" /\ video_pc' \notin {"test", "exited"}

BothLoopsExited == pc[Timer] \in {"exited", "crashed"} /\ video_pc = "exited"

C18_StopEndsBothLoops ==
    /\ [][ thread_stop_event => (~TimerIterationBegins /\ ~VideoIterationBegins) ]_vars
    /\ thread_stop_event ~> BothLoopsExited

\* C18 witness: the signal was raised while the timer counted down and a
\* detection cycle had tracked an item; both loops have left at their tests.
C18_Witness ==
    /\ thread_stop_event
    /\ pc[Timer] = "exited"
    /\ video_pc = "exited" /\ cycle.outcome = "stopped"
    /\ timer_remaining < Duration(0)
    /\ Tracked

\* C16: there is no replay: a subscriber never receives a progress event that
\* was emitted before it connected; every progress event is delivered only to
\* the subscribers connected when it is emitted.
Progress(s) == { event \in inbox[s] : event.by \in Producers }

C16_NoReplay ==
    \A s \in Subscribers :
        /\ s \notin clients => inbox[s] = {}
        /\ \A event \in Progress(s) :
              /\ event.n > joined[s][event.by]
              /\ event.n <= emitted[event.by]

\* C16 witness: a client that connected after a tick's event had gone to
\* another client has received the next tick's event and not the earlier one.
C16_Witness ==
    \E s \in clients, u \in clients :
        /\ joined[s][Timer] = 1 /\ joined[u][Timer] = 0
        /\ Event(Timer, 2) \in Progress(s)
        /\ Event(Timer, 1) \in Progress(u)
        /\ Event(Timer, 1) \notin Progress(s)

\* C21: at most one item is ever tracked. The collection holds no tracker or
\* one; a tracker appears only in a cycle with a qualifying detection while
\* there is none, under key 0 and with id 0; every later cycle with a
\* qualifying detection applies the first detection's box to that same tracker
\* and creates nothing.
C21_OneTrackedItem ==
    [][ /\ Cardinality(DOMAIN food_trackers') <= 1
        /\ DOMAIN food_trackers' # DOMAIN food_trackers =>
              /\ DOMAIN food_trackers = {}
              /\ video_pc = "create" /\ detected_items # << >>
              /\ DOMAIN food_trackers' = {0}
              /\ food_trackers'[0].id = 0
        /\ (video_pc = "body" /\ detected_items' # << >>) => video_pc' = "create"
        /\ (video_pc = "create" /\ video_pc' # "create") =>
              /\ video_pc' = "update"
              /\ Tracked'
              /\ Tracked =>
                    /\ food_trackers' = food_trackers
                    /\ tracker_id_counter' = tracker_id_counter
                    /\ ~cycle'.created
        /\ (video_pc = "update" /\ video_pc' # "update") =>
              /\ video_pc' = "changed" /\ cycle'.updated
              /\ DOMAIN food_trackers' = DOMAIN food_trackers
              /\ food_trackers'[0].box = detected_items[1].box
              /\ food_trackers'[0].id = food_trackers[0].id
              /\ food_trackers'[0].initial_color = food_trackers[0].initial_color
      ]_vars

\* C21 witness: with the item tracked already, a cycle found two items of
\* food in different places and moved the one tracker to the first of them.
C21_Witness ==
    /\ CycleEnded /\ cycle.updated /\ ~cycle.created
    /\ Len(detected_items) = 2
    /\ detected_items[1].box # detected_items[2].box
    /\ DOMAIN food_trackers = {0}
    /\ food_trackers[0].box = detected_items[1].box
    /\ food_trackers[0].current_color # food_trackers[0].initial_color
    /\ tracker_id_counter = 1

\* C23: the detection cycle that creates the tracker updates it at once with
\* the box and the frame it was created from: the color distance is 0, the
\* item is still raw when the cycle ends and the cycle emits no StateChange
\* event; a StateChange event is emitted only in a later cycle.
C23_CreatingCycleIsSilent ==
    /\ (CycleEnded /\ cycle.created) =>
          /\ cycle.updated
          /\ food_trackers[0].box = detected_items[1].box
          /\ NormSquared(food_trackers[0].current_color,
                         food_trackers[0].initial_color) = 0
          /\ food_trackers[0].state = "raw"
          /\ ~food_trackers[0].state_changed_this_frame
          /\ cycle.events = << >>
          /\ state_changes = 0
    /\ (CycleEnded /\ cycle.events # << >>) => ~cycle.created

\* C23 witness: the tracker has just been created on the bright pixel of the
\* image, and the cycle has ended with the item raw and nothing emitted.
C23_Witness ==
    /\ CycleEnded /\ cycle.created /\ cycle.updated
    /\ food_trackers[0].box = <<FrameWidth - 1, 0, 1, 1>>
    /\ food_trackers[0].state = "raw"
    /\ cycle.events = << >>

\* C22: under any interleaving of the timer loop's tick() with advanceStep(),
\* pause() and resume(), the remaining time never exceeds the duration of the
\* current step: a tick that races with a step advance does not write back a
\* countdown value of the previous step. Stated between operations, when no
\* thread is inside one.
C22_CountdownWithinStep ==
    (Quiescent /\ InRange(current_step_index)) =>
        timer_remaining <= Duration(current_step_index)

\* C24: current_step_index never decreases in any execution: no operation
\* lowers it, and it changes only by the store of a successful advanceStep(),
\* which raises it by exactly 1 (so that at most len(steps) - 1 calls can
\* succeed).
C24_IndexNeverDecreases ==
    [][ /\ current_step_index' >= current_step_index
        /\ current_step_index' # current_step_index =>
              /\ current_step_index' = current_step_index + 1
              /\ \E w \in Workers : pc[w] = "n_store" /\ pc'[w] = "n_new" ]_vars

====
